---------------------------- MODULE Spec2Model ----------------------------
(***************************************************************************)
(* A model of S3-Bucket-Enumerator.py: region auto-detection, the          *)
(* recursive listing and its parsing, grouping by top-level folder, the    *)
(* per-folder read and write probes and the final report.                  *)
(*                                                                         *)
(* Strings are sequences of symbols.  A key is a sequence over "a", "b",   *)
(* "/" and the canary file names; a line of `aws s3 ls` output is the      *)
(* sequence of its whitespace-separated parts; stderr is a sequence of     *)
(* phrases, and Python's `x in stderr` is membership of the phrase.        *)
(* The aws CLI is the environment: each call is answered by one response   *)
(* drawn from the responses the storage interface can give.                *)
(***************************************************************************)
EXTENDS Integers, Sequences, FiniteSets, TLC

(* ------------------------------ bounds -------------------------------- *)

\* How many of the 30 CANDIDATE_REGIONS the model keeps.
NumRegions == 3

\* The longest recursive listing (in lines) the backend returns.
MaxLines == 2

(* ------------------------------ strings ------------------------------- *)

Range(s) == {s[i] : i \in 1..Len(s)}

\* Python's `phrase in text`, at the granularity of phrases.
Contains(phrase, text) == \E i \in 1..Len(text) : text[i] = phrase

AN_ERROR_OCCURRED == "An error occurred"
ACCESS_DENIED == "AccessDenied"

\* Python's str.split('/')[0]: the symbols before the first '/'.
RECURSIVE SplitFirst(_)
SplitFirst(key) ==
    IF key = <<>> \/ Head(key) = "/" THEN <<>>
    ELSE <<Head(key)>> \o SplitFirst(Tail(key))

Digits == {"0", "1", "2", "3", "4", "5", "6", "7", "8", "9"}

DigitVal(d) ==
    CASE d = "0" -> 0 [] d = "1" -> 1 [] d = "2" -> 2 [] d = "3" -> 3
      [] d = "4" -> 4 [] d = "5" -> 5 [] d = "6" -> 6 [] d = "7" -> 7
      [] d = "8" -> 8 [] d = "9" -> 9

\* int(text) raises ValueError unless text is a decimal literal (the model's
\* size fields carry no sign, underscore or blank).
IntRaises(text) == text = <<>> \/ \E i \in 1..Len(text) : text[i] \notin Digits

RECURSIVE IntOf(_)
IntOf(text) ==
    IF text = <<>> THEN 0
    ELSE 10 * IntOf(SubSeq(text, 1, Len(text) - 1)) + DigitVal(text[Len(text)])

(* ------------------------- the storage backend ------------------------ *)

AllRegions == <<"us-east-1", "us-east-2", "us-west-1", "us-west-2",
                "af-south-1", "ap-east-1", "ap-south-1", "ap-south-2">>

CANDIDATE_REGIONS == SubSeq(AllRegions, 1, NumRegions)

\* The region a user may type at the prompt.
TypedRegion == "eu-west-1"

\* The names random.choices(...) + ".txt" can produce (each one symbol).
CanaryNames == {"N1.txt", "N2.txt"}

DATE == <<"2025-03-27">>
TIME == <<"15:48:38">>

\* The lines a recursive listing is made of: three well-formed records (one
\* of them a key that a canary name can hit, one a root-level key), a record
\* whose size is not a number, a record without a key, and a blank line.
LineCanary  == <<DATE, TIME, <<"1", "2">>, <<"a", "/", "N1.txt">>>>
LineRoot    == <<DATE, TIME, <<"0">>, <<"b">>>>
LineNested  == <<DATE, TIME, <<"7">>, <<"a", "/", "b", "/", "a">>>>
LineBadSize == <<DATE, TIME, <<"1", "x">>, <<"b", "/", "a">>>>
LineNoKey   == <<DATE, TIME, <<"5">>>>
LineBlank   == <<>>

Lines == {LineCanary, LineRoot, LineNested, LineBadSize, LineNoKey, LineBlank}

Listings == UNION {[1..n -> Lines] : n \in 0..MaxLines}

\* What a storage call can come to: it succeeds, the service refuses it, the
\* bucket is not served there, the transport fails (or the client times
\* out), or the client cannot be run at all (subprocess.run raises).
ErrorKinds == {"AccessDenied", "NotFound", "Transport", "Exception"}

ErrorText(kind) ==
    CASE kind = "AccessDenied" -> <<AN_ERROR_OCCURRED, ACCESS_DENIED>>
      [] kind = "NotFound"     -> <<AN_ERROR_OCCURRED, "NoSuchBucket">>
      [] kind = "Transport"    -> <<"Could not connect to the endpoint URL">>
      [] kind = "Exception"    -> <<"[Errno 2] No such file or directory">>

\* A response of the client process: a successful call prints its output and
\* nothing on stderr; a failed one prints nothing and its error on stderr.
Ok(out) == [kind |-> "Ok", raised |-> FALSE, stdout |-> out, stderr |-> <<>>]

Failed(kind) ==
    [kind |-> kind, raised |-> kind = "Exception", stdout |-> <<>>,
     stderr |-> ErrorText(kind)]

Responses(out, kinds) == {Ok(out)} \cup {Failed(k) : k \in kinds}

(* ------------------------------ run_command --------------------------- *)

run_command(resp) ==
    IF resp.raised
    THEN [stdout |-> <<>>, stderr |-> resp.stderr]
    ELSE [stdout |-> resp.stdout, stderr |-> resp.stderr]


(* -------------------------------- state ------------------------------- *)

VARIABLES
    pc,                 \* where main() stands
    region_input,       \* what the user typed at the region prompt
    listing,            \* what a successful listing of the bucket prints
    bucket,             \* the objects stored in the bucket: key -> payload
    d_i,                \* auto_detect_region: index of the next candidate
    d_seen,             \* auto_detect_region: the calls made so far
    d_ret,              \* auto_detect_region: the value returned
    region,             \* main: region
    enum_kind,          \* how the recursive listing call ended ("none" before)
    objects,            \* main: objects
    groups,             \* main: groups
    todo,               \* the folders of groups.keys() still to be probed
    read_access,        \* main: read_access
    write_access,       \* main: write_access
    test_file,          \* check_write_access: test_file
    probe,              \* the storage calls of the loop's current iteration
    before,             \* the bucket as it was when that iteration began
    folder_permissions, \* main: folder_permissions
    issued,             \* every storage call issued in this run
    report,             \* what generate_html_report was given (<<>> if none)
    outcome             \* how the run ended ("running" until then)

vars == <<pc, region_input, listing, bucket, d_i, d_seen, d_ret, region,
          enum_kind, objects, groups, todo, read_access, write_access,
          test_file, probe, before, folder_permissions, issued, report,
          outcome>>

NoMap == [f \in {} |-> FALSE]

NoProbe == [folder |-> <<>>, calls |-> <<>>]

Call(op, target) == [op |-> op, target |-> target]

\* The keys the listing shows (a record without a key shows none).
ListedKeys(ls) == {ls[i][4] : i \in {j \in 1..Len(ls) : Len(ls[j]) >= 4}}

\* What an upload does to the bucket: it creates or overwrites the key.
PutEffect(b, key, resp) ==
    IF resp.kind = "Ok"
    THEN [k \in DOMAIN b \cup {key} |-> IF k = key THEN "canary" ELSE b[k]]
    ELSE b

\* What a delete does to the bucket: the key is gone.
DeleteEffect(b, key, resp) ==
    IF resp.kind = "Ok" THEN [k \in DOMAIN b \ {key} |-> b[k]] ELSE b

Init ==
    /\ pc = "start"
    /\ region_input \in {"", TypedRegion}
    /\ listing \in Listings
    /\ bucket = [k \in ListedKeys(listing) |-> "data"]
    /\ d_i = 1
    /\ d_seen = <<>>
    /\ d_ret = "None"
    /\ region = "None"
    /\ enum_kind = "none"
    /\ objects = <<>>
    /\ groups = NoMap
    /\ todo = <<>>
    /\ read_access = FALSE
    /\ write_access = FALSE
    /\ test_file = "None"
    /\ probe = NoProbe
    /\ before = bucket
    /\ folder_permissions = NoMap
    /\ issued = {}
    /\ report = <<>>
    /\ outcome = "running"

(* ------------------------- auto_detect_region ------------------------- *)

\* Variant: the acceptance test without `and stdout`.
RegionAccepted_IgnoresOutput(out) == ~Contains(AN_ERROR_OCCURRED, out.stderr)

\* if "An error occurred" not in stderr and stdout
RegionAccepted(out) ==
    ~Contains(AN_ERROR_OCCURRED, out.stderr) /\ out.stdout # <<>>

\* main: region typed, or auto-detection entered
MainPrompt ==
    /\ pc = "start"
    /\ IF region_input = ""
       THEN /\ pc' = "detect"
            /\ UNCHANGED region
       ELSE /\ pc' = "list"
            /\ region' = region_input
    /\ UNCHANGED <<region_input, listing, bucket, d_i, d_seen, d_ret,
                   enum_kind, objects, groups, todo, read_access,
                   write_access, test_file, probe, before,
                   folder_permissions, issued, report, outcome>>

\* one iteration of `for region in CANDIDATE_REGIONS`
DetectStep ==
    /\ pc = "detect"
    /\ d_i <= Len(CANDIDATE_REGIONS)
    /\ \E resp \in Responses(listing, ErrorKinds) :
         LET candidate == CANDIDATE_REGIONS[d_i]
             out == run_command(resp)
         IN /\ d_seen' = Append(d_seen, [region |-> candidate, resp |-> resp])
            /\ issued' = issued \cup {Call("ls bucket", <<candidate>>)}
            /\ IF RegionAccepted(out)
               THEN /\ d_ret' = candidate
                    /\ pc' = "detect_ret"
                    /\ UNCHANGED d_i
               ELSE /\ d_i' = d_i + 1
                    /\ UNCHANGED <<d_ret, pc>>
    /\ UNCHANGED <<region_input, listing, bucket, region, enum_kind, objects,
                   groups, todo, read_access, write_access, test_file, probe,
                   before, folder_permissions, report, outcome>>

\* the loop ran out of candidates: return None
DetectExhausted ==
    /\ pc = "detect"
    /\ d_i > Len(CANDIDATE_REGIONS)
    /\ d_ret' = "None"
    /\ pc' = "detect_ret"
    /\ UNCHANGED <<region_input, listing, bucket, d_i, d_seen, region,
                   enum_kind, objects, groups, todo, read_access,
                   write_access, test_file, probe, before,
                   folder_permissions, issued, report, outcome>>

\* Variant: main without the `if not region` exit.
DetectionFailed_Never(r) == FALSE

\* if not region
DetectionFailed(r) == r = "None" \/ r = ""

\* main: region = auto_detect_region(...); give up if there is none
MainAfterDetect ==
    /\ pc = "detect_ret"
    /\ region' = d_ret
    /\ IF DetectionFailed(d_ret)
       THEN /\ pc' = "done"
            /\ outcome' = "no_region"
       ELSE /\ pc' = "list"
            /\ UNCHANGED outcome
    /\ d_i' = 1
    /\ d_seen' = <<>>
    /\ UNCHANGED <<region_input, listing, bucket, d_ret, enum_kind, objects,
                   groups, todo, read_access, write_access, test_file, probe,
                   before, folder_permissions, issued, report>>


(* --------------------------- list_s3_objects -------------------------- *)

\* lines = [line for line in stdout.splitlines() if line.strip()]
NonBlank(lines) == SelectSeq(lines, LAMBDA line : line # <<>>)

\* the lines that reach objects.append: len(parts) >= 4
Records(stdout) == SelectSeq(NonBlank(stdout), LAMBDA parts : Len(parts) >= 4)

\* int(parts[2]) raises ValueError on some record
ParseRaises(stdout) ==
    \E i \in 1..Len(Records(stdout)) : IntRaises(Records(stdout)[i][3])

ParseObjects(stdout) ==
    [i \in 1..Len(Records(stdout)) |->
        LET parts == Records(stdout)[i]
        IN [date |-> parts[1], time |-> parts[2], size |-> IntOf(parts[3]),
            key |-> parts[4]]]

\* list_s3_objects: what it returns, or that it raises
list_s3_objects(out) ==
    IF out.stderr # <<>> THEN [raised |-> FALSE, objects |-> <<>>]
    ELSE IF ParseRaises(out.stdout) THEN [raised |-> TRUE, objects |-> <<>>]
    ELSE [raised |-> FALSE, objects |-> ParseObjects(out.stdout)]

(* ----------------------- group_objects_by_folder ---------------------- *)

\* Variant: grouping by the whole key.
TopFolder_WholeKey(key) == key

\* folder = obj["key"].split('/')[0]
TopFolder(key) == SplitFirst(key)

\* groups.setdefault(folder, []).append(obj), for each object in order
group_objects_by_folder(objs) ==
    [folder \in {TopFolder(objs[i].key) : i \in 1..Len(objs)} |->
        SelectSeq(objs, LAMBDA obj : TopFolder(obj.key) = folder)]

\* groups.keys(): the folders in the order they were first inserted
RECURSIVE KeysInOrder(_)
KeysInOrder(objs) ==
    IF objs = <<>> THEN <<>>
    ELSE LET front == KeysInOrder(SubSeq(objs, 1, Len(objs) - 1))
             folder == TopFolder(objs[Len(objs)].key)
         IN IF folder \in Range(front) THEN front ELSE Append(front, folder)

\* Variant: main without the `if not objects` exit.
NothingToReport_Never(objs) == FALSE

\* if not objects
NothingToReport(objs) == objs = <<>>

\* main: objects = list_s3_objects(...), the empty check and the grouping
ListObjects ==
    /\ pc = "list"
    /\ \E resp \in Responses(listing, ErrorKinds) :
         LET ret == list_s3_objects(run_command(resp))
         IN /\ enum_kind' = resp.kind
            /\ issued' = issued \cup {Call("ls --recursive", <<region>>)}
            /\ objects' = ret.objects
            /\ IF ret.raised
               THEN /\ pc' = "crashed"
                    /\ outcome' = "ValueError"
                    /\ UNCHANGED <<groups, todo>>
               ELSE IF NothingToReport(ret.objects)
               THEN /\ pc' = "done"
                    /\ outcome' = "no_objects"
                    /\ UNCHANGED <<groups, todo>>
               ELSE /\ groups' = group_objects_by_folder(ret.objects)
                    /\ todo' = KeysInOrder(ret.objects)
                    /\ pc' = IF todo' = <<>> THEN "report" ELSE "probe_read"
                    /\ UNCHANGED outcome
    /\ UNCHANGED <<region_input, listing, bucket, d_i, d_seen, d_ret, region,
                   read_access, write_access, test_file, probe, before,
                   folder_permissions, report>>


(* ------------------------- the permission probes ---------------------- *)

\* What a probe call can come to (the bucket has been found by now).
ProbeErrors == {"AccessDenied", "Transport", "Exception"}

\* The clean-up delete is refused where objects may be created but not removed.
CleanupErrors == {"AccessDenied"}

\* folder_path = folder + "/"
FolderPath(folder) == Append(folder, "/")

Record(op, target, resp) == [op |-> op, target |-> target, kind |-> resp.kind]

\* check_read_access: if "AccessDenied" in stderr or "An error occurred" in stderr
ReadDenied(out) ==
    Contains(ACCESS_DENIED, out.stderr) \/ Contains(AN_ERROR_OCCURRED, out.stderr)

\* Variant: the upload test reading stdout for stderr.
UploadDenied_ReadsStdout(out) ==
    Contains(ACCESS_DENIED, out.stdout) \/ Contains(AN_ERROR_OCCURRED, out.stdout)

\* check_write_access: if "AccessDenied" in stderr or "An error occurred" in stderr
UploadDenied(out) ==
    Contains(ACCESS_DENIED, out.stderr) \/ Contains(AN_ERROR_OCCURRED, out.stderr)

\* s3://{bucket_name}/{folder}{test_file} of upload_cmd
upload_target(folder_path, name) == Append(folder_path, name)

\* Variant: delete_cmd built from the local temporary file's name.
delete_target_TempFile(folder_path, name) == Append(folder_path, "tmpab12cd")

\* s3://{bucket_name}/{folder}{test_file} of delete_cmd
delete_target(folder_path, name) == Append(folder_path, name)

\* run_command(delete_cmd); return True
WriteResult(out) == TRUE

\* Variant: a loop that skips the write probe once the read probe fails.
CheckRead_ShortCircuit ==
    /\ pc = "probe_read"
    /\ todo # <<>>
    /\ \E resp \in Responses(listing, ProbeErrors) :
         LET folder == Head(todo)
             denied == ReadDenied(run_command(resp))
         IN /\ read_access' = ~denied
            /\ probe' = [folder |-> folder,
                         calls |-> <<Record("ls folder", FolderPath(folder), resp)>>]
            /\ issued' = issued \cup {Call("ls folder", FolderPath(folder))}
            /\ write_access' = IF denied THEN FALSE ELSE write_access
            /\ pc' = IF denied THEN "probe_store" ELSE "probe_write"
    /\ before' = bucket
    /\ UNCHANGED <<region_input, listing, bucket, d_i, d_seen, d_ret, region,
                   enum_kind, objects, groups, todo, test_file,
                   folder_permissions, report, outcome>>

\* main: the next folder of groups.keys(); read_access = check_read_access(...)
CheckRead ==
    /\ pc = "probe_read"
    /\ todo # <<>>
    /\ \E resp \in Responses(listing, ProbeErrors) :
         LET folder == Head(todo)
         IN /\ read_access' = ~ReadDenied(run_command(resp))
            /\ probe' = [folder |-> folder,
                         calls |-> <<Record("ls folder", FolderPath(folder), resp)>>]
            /\ issued' = issued \cup {Call("ls folder", FolderPath(folder))}
    /\ before' = bucket
    /\ pc' = "probe_write"
    /\ UNCHANGED <<region_input, listing, bucket, d_i, d_seen, d_ret, region,
                   enum_kind, objects, groups, todo, write_access, test_file,
                   folder_permissions, report, outcome>>

\* check_write_access up to the test of the upload's stderr
WriteUpload ==
    /\ pc = "probe_write"
    /\ \E name \in CanaryNames, resp \in Responses(<<>>, ProbeErrors) :
         LET key == upload_target(FolderPath(Head(todo)), name)
         IN /\ test_file' = name
            /\ bucket' = PutEffect(bucket, key, resp)
            /\ probe' = [probe EXCEPT !.calls = Append(@, Record("cp", key, resp))]
            /\ issued' = issued \cup {Call("cp", key)}
            /\ IF UploadDenied(run_command(resp))
               THEN /\ write_access' = FALSE
                    /\ pc' = "probe_store"
               ELSE /\ pc' = "probe_delete"
                    /\ UNCHANGED write_access
    /\ UNCHANGED <<region_input, listing, d_i, d_seen, d_ret, region,
                   enum_kind, objects, groups, todo, read_access, before,
                   folder_permissions, report, outcome>>

\* check_write_access: the clean-up delete and `return True`
WriteDelete ==
    /\ pc = "probe_delete"
    /\ \E resp \in Responses(<<>>, CleanupErrors) :
         LET key == delete_target(FolderPath(Head(todo)), test_file)
         IN /\ bucket' = DeleteEffect(bucket, key, resp)
            /\ probe' = [probe EXCEPT !.calls = Append(@, Record("rm", key, resp))]
            /\ issued' = issued \cup {Call("rm", key)}
            /\ write_access' = WriteResult(run_command(resp))
    /\ pc' = "probe_store"
    /\ UNCHANGED <<region_input, listing, d_i, d_seen, d_ret, region,
                   enum_kind, objects, groups, todo, read_access, test_file,
                   before, folder_permissions, report, outcome>>

\* folder_permissions[folder] = {"read": read_access, "write": write_access}
StorePermissions ==
    /\ pc = "probe_store"
    /\ LET folder == Head(todo)
       IN folder_permissions' =
            [f \in DOMAIN folder_permissions \cup {folder} |->
                IF f = folder
                THEN [read |-> read_access, write |-> write_access]
                ELSE folder_permissions[f]]
    /\ todo' = Tail(todo)
    /\ pc' = IF Tail(todo) = <<>> THEN "report" ELSE "probe_read"
    /\ UNCHANGED <<region_input, listing, bucket, d_i, d_seen, d_ret, region,
                   enum_kind, objects, groups, read_access, write_access,
                   test_file, probe, before, issued, report, outcome>>

(* ------------------------------- the report --------------------------- *)

RECURSIVE SumSizes(_)
SumSizes(objs) ==
    IF objs = <<>> THEN 0 ELSE Head(objs).size + SumSizes(Tail(objs))

\* main: the totals, the console tables and generate_html_report(...)
Report ==
    /\ pc = "report"
    /\ report' = <<[region |-> region,
                    total_files |-> Len(objects),
                    total_size |-> SumSizes(objects),
                    folder_permissions |-> folder_permissions,
                    groups |-> groups]>>
    /\ outcome' = "report"
    /\ pc' = "done"
    /\ probe' = NoProbe
    /\ before' = bucket
    /\ UNCHANGED <<region_input, listing, bucket, d_i, d_seen, d_ret, region,
                   enum_kind, objects, groups, todo, read_access,
                   write_access, test_file, folder_permissions, issued>>

Next ==
    \/ MainPrompt
    \/ DetectStep
    \/ DetectExhausted
    \/ MainAfterDetect
    \/ ListObjects
    \/ CheckRead
    \/ WriteUpload
    \/ WriteDelete
    \/ StorePermissions
    \/ Report

Spec == Init /\ [][Next]_vars


(* ------------------------------ properties ---------------------------- *)

Calls == probe.calls

\* The current iteration's result has been stored in folder_permissions.
Stored == probe.folder \in DOMAIN folder_permissions

\* The candidates whose list call, among those made, satisfies P.
Seen(P(_)) == {i \in 1..Len(d_seen) : P(d_seen[i].resp)}

Succeeded(resp) == resp.kind = "Ok"

SucceededNonEmpty(resp) == resp.kind = "Ok" /\ resp.stdout # <<>>

\* auto_detect_region has returned the first candidate satisfying P after
\* calling exactly the candidates up to it, or None after calling them all.
ReturnsFirst(P(_)) ==
    /\ \A i \in 1..Len(d_seen) : d_seen[i].region = CANDIDATE_REGIONS[i]
    /\ IF Seen(P) = {}
       THEN d_ret = "None" /\ Len(d_seen) = Len(CANDIDATE_REGIONS)
       ELSE \E i \in Seen(P) :
              /\ \A j \in Seen(P) : i <= j
              /\ d_ret = CANDIDATE_REGIONS[i]
              /\ Len(d_seen) = i

C2_AccessDeniedGivesFalse ==
    \A i \in 1..Len(Calls) :
        /\ (Calls[i].op = "ls folder" /\ Calls[i].kind = "AccessDenied") =>
              /\ ~read_access
              /\ Stored => ~folder_permissions[probe.folder].read
        /\ (Calls[i].op = "cp" /\ Calls[i].kind = "AccessDenied") =>
              /\ pc # "probe_delete"
              /\ ~write_access
              /\ Stored => ~folder_permissions[probe.folder].write
              /\ \A j \in 1..Len(Calls) : Calls[j].op # "rm"
              /\ Call("rm", Calls[i].target) \notin issued

C2_Witness ==
    /\ Stored
    /\ Len(Calls) = 2
    /\ Calls[1].kind = "AccessDenied"
    /\ Calls[2].kind = "AccessDenied"
    /\ folder_permissions[probe.folder] = [read |-> FALSE, write |-> FALSE]

InProbes == pc \in {"probe_read", "probe_write", "probe_delete", "probe_store"}

\* C3: every folder of the classifier gets both its read probe (a list of
\* folder + "/") and its write probe (an upload to folder + "/" + name),
\* whatever the other probe or earlier folders came to; the outcome is
\* recorded as found, canRead = false with canWrite = true included; and no
\* probe failure stops the run before every folder is probed and reported.
C3_BothProbesAlwaysIssued ==
    /\ \A f \in DOMAIN folder_permissions :
          /\ f \in DOMAIN groups
          /\ Call("ls folder", Append(f, "/")) \in issued
          /\ \E n \in CanaryNames : Call("cp", Append(Append(f, "/"), n)) \in issued
    /\ Stored => folder_permissions[probe.folder] =
                    [read |-> read_access, write |-> write_access]
    /\ (pc = "report" \/ outcome = "report") =>
          DOMAIN groups \subseteq DOMAIN folder_permissions
    /\ (pc = "done" /\ objects # <<>>) => outcome = "report"
    /\ (InProbes \/ pc = "report") => ENABLED Next

C3_Witness ==
    /\ outcome = "report"
    /\ report # <<>>
    /\ Cardinality(DOMAIN folder_permissions) = 2
    /\ \E f \in DOMAIN folder_permissions :
          folder_permissions[f] = [read |-> FALSE, write |-> TRUE]
    /\ \E f \in DOMAIN folder_permissions :
          folder_permissions[f] = [read |-> TRUE, write |-> FALSE]

HasSlash(key) == \E i \in 1..Len(key) : key[i] = "/"

\* f is key up to its first '/', or all of key when it has none.
IsFolderOf(f, key) ==
    IF HasSlash(key)
    THEN /\ Len(f) < Len(key)
         /\ f = SubSeq(key, 1, Len(f))
         /\ key[Len(f) + 1] = "/"
         /\ ~HasSlash(f)
    ELSE f = key

Prefixes(key) == {SubSeq(key, 1, n) : n \in 0..Len(key)}

\* The distinct top-level folders of the enumerated objects.
FoldersOf(objs) ==
    {f \in UNION {Prefixes(objs[i].key) : i \in 1..Len(objs)} :
        \E i \in 1..Len(objs) : IsFolderOf(f, objs[i].key)}

\* C4: at report generation the key set of the folder-to-objects map equals
\* the key set of the permissions map, and both equal the set of distinct
\* top-level folders of the enumerated objects.
C4_KeySetsAgree ==
    /\ pc = "report" =>
          /\ DOMAIN groups = FoldersOf(objects)
          /\ DOMAIN folder_permissions = FoldersOf(objects)
    /\ report # <<>> =>
          /\ DOMAIN report[1].groups = FoldersOf(objects)
          /\ DOMAIN report[1].folder_permissions = FoldersOf(objects)

C4_Witness ==
    /\ report # <<>>
    /\ Cardinality(DOMAIN report[1].groups) = 2
    /\ \E f \in DOMAIN report[1].groups : Len(report[1].groups[f]) = 1
    /\ \E i \in 1..Len(objects) : ~HasSlash(objects[i].key)

\* The objects stored under a folder path, with what they hold.
Under(b, path) ==
    LET keys == {k \in DOMAIN b :
                    Len(k) > Len(path) /\ SubSeq(k, 1, Len(path)) = path}
    IN [k \in keys |-> b[k]]

\* The write probe has returned after an upload and a delete that both
\* succeeded.
CleanCycle ==
    /\ Len(Calls) = 3
    /\ Calls[2].op = "cp" /\ Calls[2].kind = "Ok"
    /\ Calls[3].op = "rm" /\ Calls[3].kind = "Ok"

\* C5 as stated: whatever the bucket held, after an upload and a clean-up
\* delete that both succeeded the objects under the folder are exactly those
\* stored there before the probe.
C5_FolderUnchangedAlways ==
    CleanCycle => Under(bucket, Calls[1].target) = Under(before, Calls[1].target)

\* C5 as amended: provided no object was stored under the canary's key
\* before the probe, after an upload and a clean-up delete that both
\* succeeded the objects under the folder are exactly those stored there
\* before the probe.
C5_FolderUnchangedUnlessCollision ==
    (CleanCycle /\ Calls[2].target \notin DOMAIN before) =>
        Under(bucket, Calls[1].target) = Under(before, Calls[1].target)

C5_Witness ==
    /\ CleanCycle
    /\ Calls[2].target \notin DOMAIN before
    /\ Under(before, Calls[1].target) # NoMap
    /\ Stored

\* C6: with no region typed and every candidate's list call failing, region
\* resolution returns None and the run ends there: no recursive listing, no
\* probe call (list, upload or delete) and no report.
C6_NoRegionNoFurtherCalls ==
    /\ (pc = "detect_ret" /\ Seen(Succeeded) = {}) => d_ret = "None"
    /\ (region_input = "" /\ d_ret = "None"
            /\ pc \notin {"start", "detect", "detect_ret"}) =>
          /\ pc = "done"
          /\ outcome = "no_region"
          /\ \A c \in issued : c.op = "ls bucket"
          /\ enum_kind = "none"
          /\ folder_permissions = NoMap
          /\ report = <<>>

C6_Witness ==
    /\ pc = "done"
    /\ outcome = "no_region"
    /\ listing # <<>>
    /\ Cardinality(issued) = Len(CANDIDATE_REGIONS)

\* C7: when the recursive listing succeeds and yields no object, the run
\* ends with "nothing to report": the permissions map stays empty and no
\* read-probe list, upload or delete is ever issued.
C7_EmptyBucketNoProbes ==
    (enum_kind = "Ok" /\ objects = <<>> /\ pc # "crashed") =>
        /\ pc = "done"
        /\ outcome = "no_objects"
        /\ folder_permissions = NoMap
        /\ report = <<>>
        /\ \A c \in issued : c.op \notin {"ls folder", "cp", "rm"}

C7_Witness ==
    /\ pc = "done"
    /\ outcome = "no_objects"
    /\ enum_kind = "Ok"
    /\ listing # <<>>

\* C8: an error on a probe's storage call that is not an access-denied
\* error (transport fault, timeout, client that cannot be run) gives false
\* for that capability: canRead or canWrite is true only when the call
\* succeeded.
C8_OnlySuccessGivesTrue ==
    \A i \in 1..Len(Calls) :
        /\ Calls[i].op = "ls folder" =>
              /\ read_access => Calls[i].kind = "Ok"
              /\ (Stored /\ folder_permissions[probe.folder].read) =>
                    Calls[i].kind = "Ok"
        /\ (Calls[i].op = "cp" /\ pc # "probe_delete") =>
              /\ write_access => Calls[i].kind = "Ok"
              /\ (Stored /\ folder_permissions[probe.folder].write) =>
                    Calls[i].kind = "Ok"

\* A record that parses: it has a key and its size is a number.
WellFormed(line) ==
    /\ Len(line) >= 4
    /\ line[3] # <<>>
    /\ \A i \in 1..Len(line[3]) : line[3][i] \in Digits

\* C9: a record of a successful listing that cannot be parsed is skipped
\* and the well-formed ones are kept in order: a malformed record never
\* fails the enumeration or the run.
C9_MalformedRecordsSkipped ==
    /\ pc # "crashed"
    /\ enum_kind = "Ok" =>
          /\ Len(objects) = Len(SelectSeq(listing, WellFormed))
          /\ \A i \in 1..Len(objects) :
                objects[i].key = SelectSeq(listing, WellFormed)[i][4]

\* C10: a write probe whose upload succeeds issues exactly one delete, after
\* the upload's outcome is known, for the very key it uploaded, and returns
\* canWrite = true whether the delete succeeds or not; no delete is ever
\* issued for a key the same probe did not upload.
C10_CleanupOnlyAfterUpload ==
    /\ \A i \in 1..Len(Calls) : Calls[i].op = "rm" =>
          /\ i > 1
          /\ Calls[i - 1].op = "cp"
          /\ Calls[i - 1].kind = "Ok"
          /\ Calls[i - 1].target = Calls[i].target
          /\ \A j \in 1..Len(Calls) : Calls[j].op = "rm" => j = i
    /\ \A i \in 1..Len(Calls) : (Calls[i].op = "cp" /\ Calls[i].kind = "Ok") =>
          IF pc = "probe_delete"
          THEN Len(Calls) = i
          ELSE /\ Len(Calls) = i + 1
               /\ Calls[i + 1].op = "rm"
               /\ write_access
               /\ Stored => folder_permissions[probe.folder].write
    /\ \A c \in issued : c.op = "rm" => Call("cp", c.target) \in issued

=============================================================================
